---- MODULE Spec2Model ----
(***************************************************************************)
(* ReyaOGClaimer (src/ReyaOGClaimer/main.py): the batch of wallet tasks     *)
(* that main() creates, the asyncio.Semaphore gating start_work, the retry  *)
(* wrapper async_error_handler around ReyaOGClaimer.check_eligible, and the *)
(* remote calls of activate_account / check_eligible.                       *)
(*                                                                         *)
(* Granularity: one action is one run of a task between two suspension      *)
(* points of the cooperative scheduler (an awaited HTTP call, the backoff   *)
(* sleep, the wait in Semaphore.acquire).  "pc[w] = c" for a remote call c  *)
(* means: the request c has been issued and the task awaits its response.   *)
(* Remote responses are inputs, drawn with \E when the response arrives.    *)
(* The terminal outcome lines (main.py 206-215) are part of the state; of   *)
(* the informational ones, what 122 and 159 report is kept in activation,   *)
(* line 188 is output only.  The clock of create_message is a logical one:  *)
(* attempts of a wallet are two seconds of backoff apart.                   *)
(***************************************************************************)
EXTENDS Integers, Sequences, FiniteSets, TLC

\* ------------------------------------------------------------------ bounds
NumWallets == 2      \* len(accounts): the wallets of the batch
MaxCapacity == 2     \* largest gate capacity explored by SpecCap

\* ------------------------------------------------------- program constants
\* variant: one retry too many
RetriesOneMore == 3 + 1
Retries == 3         \* async_error_handler(error_msg, retries=3)
Capacity == 1        \* asyncio.Semaphore(1)
Validity == 600000   \* deadline = int(time.time() + 600000)

Wallets == 1..NumWallets

VARIABLES
    capacity,   \* the value the semaphore was constructed with
    semValue,   \* Semaphore._value: free slots
    waiters,    \* Semaphore._waiters: FIFO of tasks blocked in acquire()
    pc,         \* pc[w]: position of wallet w's task
    i,          \* i[w]: loop variable of wrapper's "for i in range(0, retries)"
    attempts,   \* attempts[w]: calls of the wrapped func made by wrapper
    fails,      \* fails[w]: calls of func that ended in the except clause (main.py:22)
    sleeps,     \* sleeps[w]: asyncio.sleep(2) backoff waits started
    lookups,    \* lookups[w]: account-lookup GETs issued (runs of activate_account)
    puts,       \* puts[w]: PUTs to /api/sbt/mint issued
    client,     \* client[w]: state of the aiohttp.ClientSession of the attempt
    activation, \* activation[w]: what activate_account has found, from the account
                \* lookup's response until the mint-status response is handled:
                \* "absent" / "present" (lookup empty / populated), "activated" /
                \* "unconfirmed" (relayer response with / without txHash); else "none"
    queried,    \* queried[w]: the mint-status GET has been issued for wallet w
    lastStatus, \* lastStatus[w]: response_json (main.py:186) the attempt that runs, or
                \* that returned, branched on; no longer held once an attempt raised
    putBody,    \* putBody[w]: json of the PUT in flight (main.py:194-200), whose
                \* signature covers the message create_message built; else NoBody
    outcomes,   \* outcomes[w]: terminal outcome lines logged for wallet w
    ret,        \* ret[w]: what acc.check_eligible() (the wrapper) returned
    errlog,     \* wallets tagged by logger.error at main.py:228
    mainpc,     \* position of main() / the __main__ block
    banner      \* 'The work completed' has been printed (main.py:256)

vars == <<capacity, semValue, waiters, pc, i, attempts, fails, sleeps, lookups, puts,
          client, activation, queried, lastStatus, putBody, outcomes,
          ret, errlog, mainpc, banner>>

semVars == <<semValue, waiters>>
wrapVars == <<i, attempts, fails, sleeps>>
callVars == <<lookups, puts>>
actVars == <<activation, queried>>

\* --------------------------------------------------------- remote responses
\* GET /api/accounts/{address}: {} | populated record | the call or the decode raises
LookupResponses == {"empty", "nonempty", "raise"}
\* POST /api/owner/tos/add-signature: the body is never decoded (main.py:128-138)
TosResponses == {"ok", "raise"}
\* POST executeGelato and PUT /api/sbt/mint: {txHash: ..} | no txHash | raises
TxResponses == {"txHash", "noTxHash", "raise"}
\* GET mint-status: a decoded object whose two fields are each true, false or
\* absent, or a call / decode that raises (decoded = FALSE)
FieldValues == {"true", "false", "absent"}
StatusResponses ==
    {[decoded |-> TRUE, isEligible |-> e, hasMinted |-> h] : e, h \in FieldValues}
    \cup {[decoded |-> FALSE, isEligible |-> "absent", hasMinted |-> "absent"]}
NoStatus == [decoded |-> FALSE, isEligible |-> "none", hasMinted |-> "none"]

\* ------------------------------------------------------- activate_account
\* variant: the test of the lookup's response is inverted
AfterLookupInverted(r) ==
    IF r = "raise" THEN "raise" ELSE IF r = "empty" THEN "status" ELSE "tos"

\* main.py:119-121: a raising call or decode leaves activate_account (there is
\* no try in it); "if len(response_json) == 0" sends the terms POST, else
\* activate_account returns and check_eligible issues the mint-status GET
AfterLookup(r) ==
    IF r = "raise" THEN "raise" ELSE IF r = "empty" THEN "tos" ELSE "status"
FoundByLookup(r) == IF r = "empty" THEN "absent" ELSE "present"

\* main.py:128-140: the response of the terms POST is not looked at
AfterTos(r) == IF r = "raise" THEN "raise" ELSE "relayer"

\* variant: a relayer response without txHash sends the workflow to the
\* backoff wait instead of on to the mint-status query
AfterRelayerNeedsTxHash(r) ==
    IF r = "raise" THEN "raise" ELSE IF r = "txHash" THEN "status" ELSE "sleep"

\* main.py:156-159: with or without 'txHash' activate_account returns
AfterRelayer(r) == IF r = "raise" THEN "raise" ELSE "status"
FoundByRelayer(r) == IF r = "txHash" THEN "activated" ELSE "unconfirmed"

\* ------------------------------------------------- check_eligible's decision
\* variant: the hasMinted test is dropped, every eligible wallet is submitted
BranchIgnoresMinted(js) ==
    IF ~js.decoded \/ js.isEligible = "absent" THEN "raise"
    ELSE IF js.isEligible = "true" THEN "submit"
    ELSE "NotEligible"

\* variant: the fields are read with a default (response_json.get(k)), a
\* missing field counts as false instead of raising
BranchMissingAsFalse(js) ==
    IF ~js.decoded THEN "raise"
    ELSE IF js.isEligible = "true"
         THEN IF js.hasMinted = "true" THEN "AlreadyMinted" ELSE "submit"
    ELSE "NotEligible"

\* main.py:187-215.  response_json['k'] raises KeyError when k is absent;
\* "and" evaluates its right operand only when the left one is true.
Branch(js) ==
    IF ~js.decoded THEN "raise"
    ELSE IF js.isEligible = "absent" THEN "raise"
    ELSE IF js.isEligible = "true"
         THEN IF js.hasMinted = "absent" THEN "raise"
              ELSE IF js.hasMinted = "false" THEN "submit"
              ELSE "AlreadyMinted"
    ELSE "NotEligible"

\* main.py:205-209
MintOutcome(r) == IF r = "txHash" THEN "Minted" ELSE "MintFailed"

\* ---------------------------------------------------------- claim submission
\* Account().from_key(private_key).address of the k-th account (main.py:36)
Address(k) == NumWallets + k

\* the bytes32 literal of main.py:106 and the one of main.py:196
MerkleRootSigned == "0xbc6264e25255e1b3d456ec287615879c2525828345a3d4d4c09eb11baa2d201f"
MerkleRootSent == "0xbc6264e25255e1b3d456ec287615879c2525828345a3d4d4c09eb11baa2d201f"

\* time.time() (main.py:42) as read in the n-th attempt of a wallet, in
\* seconds from the first one: an asyncio.sleep(2) lies between two attempts
ClockAt(n) == 2 * (n - 1)

\* create_message, main.py:42-109: the "message" part of the typed data,
\* built when time.time() reads now
CreateMessage(k, now) ==
    [verifyingChainId |-> "1729",
     owner |-> Address(k),
     leafOwner |-> Address(k),
     tokenRootCount |-> "0",
     merkleRoot |-> MerkleRootSigned,
     deadline |-> now + Validity]

\* main.py:111: Account.sign_message(encode_typed_data(message), private_key);
\* a signature is determined by the key and by the message it covers
Sign(k, msg) == [key |-> k, msg |-> msg]

\* encode_typed_data reads a uint256 given as a decimal string as its value
Uint256(str) == CASE str = "0" -> 0 [] str = "1729" -> 1729 [] OTHER -> -1

\* variant: the PUT carries the signing time in place of the deadline
MintRequestSendsSigningTime(k, signature, deadline) ==
    [owner |-> Address(k),
     merkleRoot |-> MerkleRootSent,
     tokenRootCounter |-> 0,
     signature |-> signature,
     signatureDeadline |-> deadline - Validity]

\* main.py:194-200: the json of the PUT, from what create_message returned
MintRequest(k, signature, deadline) ==
    [owner |-> Address(k),
     merkleRoot |-> MerkleRootSent,
     tokenRootCounter |-> 0,
     signature |-> signature,
     signatureDeadline |-> deadline]
NoBody == <<>>

\* ------------------------------------------------------------ retry wrapper
\* variant: the last index is compared with retries instead of retries - 1
GiveUpOffByOne(k) == k = Retries

\* variant: the wrapper gives up after the first failed attempt
GiveUpAtOnce(k) == k >= 0

\* main.py:24  "if i == retries - 1: return 0"
GiveUp(k) == k = Retries - 1

\* ---------------------------------------------------------------- semaphore
\* variant: the gate admits one task more than it has slots
LockedOffByOne == semValue < 0 \/ waiters # <<>>

\* Semaphore.locked(): no free slot, or somebody is already queued
Locked == semValue = 0 \/ waiters # <<>>

\* variant: leaving the gated section does not give the slot back
ReleaseValueLeaks(v, q) == IF q = <<>> THEN v ELSE v - 1

\* Semaphore.release() (the __aexit__ of "async with semaphore", main.py:219):
\* _value += 1, then _wake_up_next() hands the slot to the first waiter
\* (_value -= 1 on its behalf).  v is _value and q is _waiters before the call.
ReleaseValue(v, q) == IF q = <<>> THEN v + 1 ELSE v
ReleaseWaiters(q) == IF q = <<>> THEN <<>> ELSE Tail(q)
ReleasePc(w, end, q) ==
    IF q = <<>> THEN [pc EXCEPT ![w] = end]
    ELSE [pc EXCEPT ![w] = end, ![Head(q)] = "woken"]

\* positions inside activate_account: a response of the account lookup, of
\* the terms POST or of the relayer POST is awaited (main.py:115-156)
Activating == {"lookup", "tos", "relayer"}
\* positions between "async with semaphore" being entered and left
InGate == {"lookup", "tos", "relayer", "status", "put", "sleep"}
\* a task woken by release() owns its slot before it runs again
HoldsSlot(p) == p \in InGate \cup {"woken"}
Ended == {"done", "failed", "cancelled"}
AllStarted == \A w \in Wallets : pc[w] # "created"

\* ---------------------------------------------------------------------- Init
InitTasks ==
    /\ waiters = <<>>
    /\ pc = [w \in Wallets |-> "created"]
    /\ i = [w \in Wallets |-> 0]
    /\ attempts = [w \in Wallets |-> 0]
    /\ fails = [w \in Wallets |-> 0]
    /\ sleeps = [w \in Wallets |-> 0]
    /\ lookups = [w \in Wallets |-> 0]
    /\ puts = [w \in Wallets |-> 0]
    /\ client = [w \in Wallets |-> "none"]
    /\ activation = [w \in Wallets |-> "none"]
    /\ queried = [w \in Wallets |-> FALSE]
    /\ lastStatus = [w \in Wallets |-> NoStatus]
    /\ putBody = [w \in Wallets |-> NoBody]
    /\ outcomes = [w \in Wallets |-> <<>>]
    /\ ret = [w \in Wallets |-> "pending"]
    /\ errlog = {}
    /\ mainpc = "gather"
    /\ banner = FALSE

\* main() has built Semaphore(1) and created one task per account (main.py:232-237)
Init ==
    /\ capacity = Capacity
    /\ semValue = Capacity
    /\ InitTasks

\* the same program with the gate's capacity edited to any value up to MaxCapacity
InitCap ==
    /\ capacity \in 1..MaxCapacity
    /\ semValue = capacity
    /\ InitTasks

\* ------------------------------------------------------------ task endings
\* start_work leaves "async with semaphore": the slot is released, the task ends
TaskEnds(w, end) ==
    /\ pc' = ReleasePc(w, end, waiters)
    /\ semValue' = ReleaseValue(semValue, waiters)
    /\ waiters' = ReleaseWaiters(waiters)

\* variant: the wrapper gives the gate slot back for the time of its backoff
FuncRaisesFreesSlot(w) ==
    /\ fails' = [fails EXCEPT ![w] = @ + 1]
    /\ client' = [client EXCEPT ![w] = "closed"]
    /\ activation' = [activation EXCEPT ![w] = "none"]
    /\ putBody' = [putBody EXCEPT ![w] = NoBody]
    /\ lastStatus' = [lastStatus EXCEPT ![w] = NoStatus]
    /\ IF GiveUp(i[w])
       THEN /\ ret' = [ret EXCEPT ![w] = "0"]
            /\ TaskEnds(w, "done")
            /\ UNCHANGED sleeps
       ELSE /\ TaskEnds(w, "sleep")
            /\ sleeps' = [sleeps EXCEPT ![w] = @ + 1]
            /\ UNCHANGED ret
    /\ UNCHANGED <<i, attempts>>

\* variant: the session is not closed when an exception leaves func
FuncRaisesSessionLeftOpen(w) ==
    /\ fails' = [fails EXCEPT ![w] = @ + 1]
    /\ client' = client
    /\ activation' = [activation EXCEPT ![w] = "none"]
    /\ putBody' = [putBody EXCEPT ![w] = NoBody]
    /\ lastStatus' = [lastStatus EXCEPT ![w] = NoStatus]
    /\ IF GiveUp(i[w])
       THEN /\ ret' = [ret EXCEPT ![w] = "0"]
            /\ TaskEnds(w, "done")
            /\ UNCHANGED sleeps
       ELSE /\ pc' = [pc EXCEPT ![w] = "sleep"]
            /\ sleeps' = [sleeps EXCEPT ![w] = @ + 1]
            /\ UNCHANGED <<ret, semValue, waiters>>
    /\ UNCHANGED <<i, attempts>>

\* An exception leaves func in the attempt with loop index i[w] (main.py:22-26):
\* "async with ClientSession" closes the session, wrapper's except clause
\* returns 0 on the last index and sleeps otherwise.  The returned 0 is
\* dropped by start_work (main.py:225), whose try block ends normally.
FuncRaises(w) ==
    /\ fails' = [fails EXCEPT ![w] = @ + 1]
    /\ client' = [client EXCEPT ![w] = "closed"]
    /\ activation' = [activation EXCEPT ![w] = "none"]
    /\ putBody' = [putBody EXCEPT ![w] = NoBody]
    /\ lastStatus' = [lastStatus EXCEPT ![w] = NoStatus]
    /\ IF GiveUp(i[w])
       THEN /\ ret' = [ret EXCEPT ![w] = "0"]
            /\ TaskEnds(w, "done")
            /\ UNCHANGED sleeps
       ELSE /\ pc' = [pc EXCEPT ![w] = "sleep"]
            /\ sleeps' = [sleeps EXCEPT ![w] = @ + 1]
            /\ UNCHANGED <<ret, semValue, waiters>>
    /\ UNCHANGED <<i, attempts>>

\* variant: the result of func is not returned, the wrapper goes on to its
\* backoff and next attempt as it does after a failure
FuncReturnsThenRetries(w) ==
    /\ client' = [client EXCEPT ![w] = "closed"]
    /\ activation' = [activation EXCEPT ![w] = "none"]
    /\ putBody' = [putBody EXCEPT ![w] = NoBody]
    /\ pc' = [pc EXCEPT ![w] = "sleep"]
    /\ sleeps' = [sleeps EXCEPT ![w] = @ + 1]
    /\ UNCHANGED <<ret, semValue, waiters, i, attempts, fails>>

\* func returns None (main.py:21): the wrapper returns it, start_work ends
FuncReturns(w) ==
    /\ client' = [client EXCEPT ![w] = "closed"]
    /\ activation' = [activation EXCEPT ![w] = "none"]
    /\ putBody' = [putBody EXCEPT ![w] = NoBody]
    /\ ret' = [ret EXCEPT ![w] = "None"]
    /\ TaskEnds(w, "done")
    /\ UNCHANGED wrapVars

\* One call of func = check_eligible (main.py:162-186): a new ClientSession is
\* opened and activate_account issues the account-lookup GET
BeginAttempt(w) ==
    /\ attempts' = [attempts EXCEPT ![w] = @ + 1]
    /\ client' = [client EXCEPT ![w] = "open"]
    /\ lookups' = [lookups EXCEPT ![w] = @ + 1]

\* ------------------------------------------------------------------ actions
\* First run of the task of wallet w (main.py:218-225).  Tasks run first in
\* the order main created them.  acquire() returns at once when the gate is
\* not locked, else the task queues.  ReyaOGClaimer(...) is built inside the
\* gate but outside the try: Account().from_key raises on a bad key
\* (main.py:36), the exception leaves start_work and the task fails, and
\* gather (main.py:238) re-raises the first such exception in main.
Start(w) ==
    /\ pc[w] = "created"
    /\ \A v \in Wallets : v < w => pc[v] # "created"
    /\ mainpc \in {"gather", "raised"}
    /\ IF Locked
       THEN /\ waiters' = Append(waiters, w)
            /\ pc' = [pc EXCEPT ![w] = "waiting"]
            /\ UNCHANGED <<semValue, i, attempts, client, lookups, mainpc>>
       ELSE \E validKey \in BOOLEAN :
            IF validKey
            THEN /\ semValue' = semValue - 1
                 /\ pc' = [pc EXCEPT ![w] = "lookup"]
                 /\ i' = [i EXCEPT ![w] = 0]
                 /\ BeginAttempt(w)
                 /\ UNCHANGED <<waiters, mainpc>>
            ELSE /\ semValue' = ReleaseValue(semValue - 1, waiters)
                 /\ waiters' = ReleaseWaiters(waiters)
                 /\ pc' = ReleasePc(w, "failed", waiters)
                 /\ mainpc' = "raised"
                 /\ UNCHANGED <<i, attempts, client, lookups>>
    /\ UNCHANGED <<capacity, fails, sleeps, puts, actVars, lastStatus, putBody,
                   outcomes, ret, errlog, banner>>

\* A task woken in acquire() runs again with its slot (main.py:219-225)
Wake(w) ==
    /\ pc[w] = "woken"
    /\ mainpc \in {"gather", "raised"}
    /\ \E validKey \in BOOLEAN :
       IF validKey
       THEN /\ pc' = [pc EXCEPT ![w] = "lookup"]
            /\ i' = [i EXCEPT ![w] = 0]
            /\ BeginAttempt(w)
            /\ UNCHANGED <<semValue, waiters, mainpc>>
       ELSE /\ TaskEnds(w, "failed")
            /\ mainpc' = "raised"
            /\ UNCHANGED <<i, attempts, client, lookups>>
    /\ UNCHANGED <<capacity, fails, sleeps, puts, actVars, lastStatus, putBody,
                   outcomes, ret, errlog, banner>>

\* Responses reach a task only while main waits in gather and after every
\* task has had its first run (the first pass of the event loop).
Running(w, at) ==
    /\ pc[w] = at
    /\ mainpc = "gather"
    /\ AllStarted

\* activate_account, main.py:115-138: response of GET /api/accounts/{address}
LookupResp(w) ==
    /\ Running(w, "lookup")
    /\ \E r \in LookupResponses :
       IF AfterLookup(r) = "raise"
       THEN FuncRaises(w) /\ UNCHANGED queried
       ELSE /\ pc' = [pc EXCEPT ![w] = AfterLookup(r)]
            /\ activation' = [activation EXCEPT ![w] = FoundByLookup(r)]
            /\ queried' = [queried EXCEPT ![w] = @ \/ AfterLookup(r) = "status"]
            /\ UNCHANGED <<semVars, wrapVars, client, ret, lastStatus, putBody>>
    /\ UNCHANGED <<capacity, callVars, outcomes, errlog, mainpc, banner>>

\* main.py:128-155: the terms POST returned; the relayer POST is issued
TosResp(w) ==
    /\ Running(w, "tos")
    /\ \E r \in TosResponses :
       IF AfterTos(r) = "raise"
       THEN FuncRaises(w)
       ELSE /\ pc' = [pc EXCEPT ![w] = AfterTos(r)]
            /\ UNCHANGED <<semVars, wrapVars, client, ret, lastStatus, activation,
                           putBody>>
    /\ UNCHANGED queried
    /\ UNCHANGED <<capacity, callVars, outcomes, errlog, mainpc, banner>>

\* main.py:156-159 and 182-185: the relayer answered; with or without a
\* txHash activate_account returns and the mint-status GET is issued
RelayerResp(w) ==
    /\ Running(w, "relayer")
    /\ \E r \in TxResponses :
       IF AfterRelayer(r) = "raise"
       THEN FuncRaises(w) /\ UNCHANGED queried
       ELSE /\ pc' = [pc EXCEPT ![w] = AfterRelayer(r)]
            /\ activation' = [activation EXCEPT ![w] = FoundByRelayer(r)]
            /\ queried' = [queried EXCEPT ![w] = @ \/ AfterRelayer(r) = "status"]
            /\ UNCHANGED <<semVars, wrapVars, client, ret, lastStatus, putBody>>
    /\ UNCHANGED <<capacity, callVars, outcomes, errlog, mainpc, banner>>

\* main.py:186-215: the mint-status response is decoded and branched on
StatusResp(w) ==
    /\ Running(w, "status")
    /\ \E js \in StatusResponses :
       CASE Branch(js) = "raise" ->
                 /\ FuncRaises(w)
                 /\ UNCHANGED <<puts, outcomes>>
            [] Branch(js) = "submit" ->
                 /\ lastStatus' = [lastStatus EXCEPT ![w] = js]
                 /\ LET message == CreateMessage(w, ClockAt(attempts[w]))
                        signature == Sign(w, message)
                    IN putBody' = [putBody EXCEPT ![w] =
                                      MintRequest(w, signature, message.deadline)]
                 /\ puts' = [puts EXCEPT ![w] = @ + 1]
                 /\ pc' = [pc EXCEPT ![w] = "put"]
                 /\ activation' = [activation EXCEPT ![w] = "none"]
                 /\ UNCHANGED <<semVars, wrapVars, client, ret, outcomes>>
            [] OTHER ->
                 /\ lastStatus' = [lastStatus EXCEPT ![w] = js]
                 /\ outcomes' = [outcomes EXCEPT ![w] = Append(@, Branch(js))]
                 /\ FuncReturns(w)
                 /\ UNCHANGED puts
    /\ UNCHANGED <<capacity, lookups, queried, errlog, mainpc, banner>>

\* main.py:192-209: response of PUT /api/sbt/mint
PutResp(w) ==
    /\ Running(w, "put")
    /\ \E r \in TxResponses :
       IF r = "raise"
       THEN /\ FuncRaises(w)
            /\ UNCHANGED outcomes
       ELSE /\ outcomes' = [outcomes EXCEPT ![w] = Append(@, MintOutcome(r))]
            /\ FuncReturns(w)
            /\ UNCHANGED lastStatus
    /\ UNCHANGED <<capacity, callVars, queried, errlog, mainpc, banner>>

\* main.py:19-26: asyncio.sleep(2) is over, the for loop takes its next index;
\* when range(0, retries) is used up the wrapper falls off its end (None)
SleepDone(w) ==
    /\ Running(w, "sleep")
    /\ IF i[w] + 1 < Retries
       THEN /\ i' = [i EXCEPT ![w] = @ + 1]
            /\ pc' = [pc EXCEPT ![w] = "lookup"]
            /\ BeginAttempt(w)
            /\ UNCHANGED <<semVars, ret>>
       ELSE /\ ret' = [ret EXCEPT ![w] = "None"]
            /\ TaskEnds(w, "done")
            /\ UNCHANGED <<i, attempts, client, lookups>>
    /\ UNCHANGED <<capacity, fails, sleeps, puts, actVars, lastStatus, putBody,
                   outcomes, errlog, mainpc, banner>>

\* main.py:238: every task ended without an exception, gather returns
GatherReturns ==
    /\ mainpc = "gather"
    /\ \A w \in Wallets : pc[w] = "done"
    /\ mainpc' = "returned"
    /\ UNCHANGED <<capacity, semVars, pc, wrapVars, callVars, actVars, lastStatus,
                   putBody, client, outcomes, ret, errlog, banner>>

\* main.py:254-256: asyncio.run returned, the banner is printed
PrintBanner ==
    /\ mainpc = "returned"
    /\ banner' = TRUE
    /\ mainpc' = "exited"
    /\ UNCHANGED <<capacity, semVars, pc, wrapVars, callVars, actVars, lastStatus,
                   putBody, client, outcomes, ret, errlog>>

\* main.py:254: main ended with the exception gather re-raised.  asyncio.run
\* cancels every task still pending (CancelledError is not an Exception, so
\* neither except clause, main.py:22 and 227, catches it; each "async with"
\* unwinds) and re-raises: the process ends with a traceback before line 256.
\* The task woken by the failing task's release has run once by then.
CancelAll ==
    /\ mainpc = "raised"
    /\ AllStarted
    /\ \A w \in Wallets : pc[w] # "woken"
    /\ pc' = [w \in Wallets |-> IF pc[w] \in Ended THEN pc[w] ELSE "cancelled"]
    /\ client' = [w \in Wallets |-> IF client[w] = "open" THEN "closed" ELSE client[w]]
    /\ semValue' = semValue + Cardinality({w \in Wallets : HoldsSlot(pc[w])})
    /\ waiters' = <<>>
    /\ activation' = [w \in Wallets |-> "none"]
    /\ putBody' = [w \in Wallets |-> NoBody]
    /\ mainpc' = "crashed"
    /\ UNCHANGED <<capacity, wrapVars, callVars, queried, lastStatus, outcomes, ret,
                   errlog, banner>>

Next ==
    \/ \E w \in Wallets : Start(w)
    \/ \E w \in Wallets : Wake(w)
    \/ \E w \in Wallets : LookupResp(w)
    \/ \E w \in Wallets : TosResp(w)
    \/ \E w \in Wallets : RelayerResp(w)
    \/ \E w \in Wallets : StatusResp(w)
    \/ \E w \in Wallets : PutResp(w)
    \/ \E w \in Wallets : SleepDone(w)
    \/ GatherReturns
    \/ PrintBanner
    \/ CancelAll

Spec == Init /\ [][Next]_vars
SpecCap == InitCap /\ [][Next]_vars

\* ======================================================================
\* Properties
\* ======================================================================
Holders == {w \in Wallets : HoldsSlot(pc[w])}
AllEnded == \A w \in Wallets : pc[w] \in Ended
ProcessOver == mainpc \in {"exited", "crashed"}
EligibleUnminted(js) == js.decoded /\ js.isEligible = "true" /\ js.hasMinted = "false"
EligibleMinted(js) == js.decoded /\ js.isEligible = "true" /\ js.hasMinted = "true"
\* terminal outcomes of wallet w: the outcome lines logged plus the sentinel 0
\* (CheckFailed) returned by the wrapper
OutcomeCount(w) == Len(outcomes[w]) + (IF ret[w] = "0" THEN 1 ELSE 0)

\* C1: with a gate of capacity C (1 in the program) at most C tasks hold a
\* slot of the gate at any time, whatever the number of tasks; the tasks
\* inside the gated section of start_work are among the holders.
C1_AtMostCapacityInGate == Cardinality(Holders) <= capacity

\* C1 witness: capacity 1, one task is inside the gated section while
\* another one is queued in acquire().
C1_Witness ==
    /\ capacity = 1
    /\ \E w, v \in Wallets : pc[w] \in InGate /\ pc[v] = "waiting"

\* C2: when the workflow of wallet i raises (a bad private key in the
\* constructor), every other wallet j still runs its own workflow to its end:
\* no other task is cut short.
C2_OtherWalletsRunToTheEnd ==
    \A w, v \in Wallets : (w # v /\ pc[w] = "failed") => pc[v] # "cancelled"

\* C3: no error escapes a wallet task: an exception raised for a wallet is
\* logged with the wallet's index by start_work, no task ends by an
\* exception, and main never ends by one (so the banner is printed).
C3_NoErrorEscapes ==
    /\ \A w \in Wallets : pc[w] = "failed" => w \in errlog
    /\ mainpc \notin {"raised", "crashed"}

C6_ExhaustedRetries ==
    \A w \in Wallets :
        /\ sleeps[w] <= 2
        /\ fails[w] = 3 => pc[w] = "done"
        /\ (pc[w] = "done" /\ fails[w] = attempts[w]) =>
               /\ attempts[w] = 3
               /\ sleeps[w] = 2
               /\ ret[w] = "0"
               /\ w \notin errlog

\* C6 witness: a wallet whose three attempts all raised.
C6_Witness == \E w \in Wallets : pc[w] = "done" /\ fails[w] = 3 /\ ret[w] = "0"

\* C7: when func fails k times (k <= 2) and then returns, the wrapper returns
\* that value (None) after exactly k + 1 attempts and k backoff waits, and no
\* attempt follows the one that returned.
C7_SuccessAfterFailures ==
    \A w \in Wallets :
        /\ attempts[w] - fails[w] \in {0, 1}
        /\ (pc[w] = "done" /\ fails[w] < attempts[w]) =>
               /\ ret[w] = "None"
               /\ fails[w] \in 0..2
               /\ attempts[w] = fails[w] + 1
               /\ sleeps[w] = fails[w]

\* C7 witness: two failures, then a success.
C7_Witness == \E w \in Wallets : pc[w] = "done" /\ ret[w] = "None" /\ fails[w] = 2

\* C8: in an attempt the PUT is issued if and only if the attempt's
\* mint-status response is {isEligible: true, hasMinted: false}; on
\* {true, true} the attempt logs AlreadyMinted and on isEligible false it
\* logs NotEligible, in both cases without a PUT, in whichever attempt.
C8_SubmitIffEligibleUnminted ==
    /\ [](\A w \in Wallets :
            /\ pc[w] = "put" => EligibleUnminted(lastStatus[w])
            /\ outcomes[w] # <<>> =>
                   /\ Len(outcomes[w]) = 1
                   /\ outcomes[w][1] \in {"Minted", "MintFailed"}
                          <=> EligibleUnminted(lastStatus[w])
                   /\ outcomes[w][1] = "AlreadyMinted"
                          <=> EligibleMinted(lastStatus[w])
                   /\ outcomes[w][1] = "NotEligible"
                          <=> (lastStatus[w].decoded /\ lastStatus[w].isEligible = "false"))
    /\ [][\A w \in Wallets :
            /\ puts'[w] # puts[w] <=>
                   (lastStatus'[w] # lastStatus[w] /\ EligibleUnminted(lastStatus'[w]))
            /\ (lastStatus'[w] # lastStatus[w] /\ lastStatus'[w] # NoStatus
                    /\ ~EligibleUnminted(lastStatus'[w])) =>
                   /\ Len(outcomes'[w]) = Len(outcomes[w]) + 1
                   /\ pc'[w] = "done"]_vars

\* C8 witness: a wallet reported {true, true} in a later attempt, after an
\* earlier attempt of the same wallet issued a PUT: no second PUT follows.
C8_Witness ==
    \E w \in Wallets :
        /\ outcomes[w] = <<"AlreadyMinted">>
        /\ attempts[w] >= 2
        /\ puts[w] = 1

\* C9: every wallet of the batch produces exactly one terminal outcome per
\* run: never more than one, and exactly one once the run is over.
C9_ExactlyOneOutcome ==
    \A w \in Wallets :
        /\ OutcomeCount(w) <= 1
        /\ ProcessOver => OutcomeCount(w) = 1

\* C10: a task releases its slot exactly once however its workflow ends: in
\* every state free slots + tasks holding a slot = capacity, and once all
\* tasks have ended every slot is free.
C10_SlotsConserved ==
    /\ semValue + Cardinality(Holders) = capacity
    /\ AllEnded => semValue = capacity

\* C10 witness: all tasks have ended, one with exhausted retries and one by
\* the exception of the constructor, and every slot is free again.
C10_Witness ==
    /\ AllEnded
    /\ \E w \in Wallets : pc[w] = "failed"
    /\ \E w \in Wallets : pc[w] = "done" /\ ret[w] = "0"
    /\ semValue = capacity

WellFormed(js) ==
    /\ js.decoded
    /\ js.isEligible # "absent"
    /\ js.isEligible = "true" => js.hasMinted # "absent"

\* C12: a mint-status response that cannot be decoded, lacks isEligible, or
\* lacks hasMinted when isEligible is true, raises inside the attempt: the
\* decision is only ever taken on a well-formed response, and the step that
\* handles a malformed one submits nothing and logs no outcome, closes the
\* session and is absorbed by the retry wrapper, which backs off before the
\* next attempt or, at the third failure, ends the workflow with the sentinel;
\* nothing reaches the batch runner (no error logged by start_work, gather
\* undisturbed).  A response on which the decision was taken counts no failure.
C12_MalformedStatusIsRetried ==
    /\ [](\A w \in Wallets : lastStatus[w] # NoStatus => WellFormed(lastStatus[w]))
    /\ [][\A w \in Wallets :
            (pc[w] = "status" /\ pc'[w] \notin {"status", "cancelled"}) =>
                IF lastStatus'[w] = NoStatus
                THEN /\ fails'[w] = fails[w] + 1
                     /\ puts'[w] = puts[w]
                     /\ outcomes'[w] = outcomes[w]
                     /\ client'[w] = "closed"
                     /\ errlog' = errlog
                     /\ mainpc' = mainpc
                     /\ \/ /\ pc'[w] = "sleep"
                           /\ fails'[w] < Retries
                           /\ sleeps'[w] = sleeps[w] + 1
                           /\ ret'[w] = "pending"
                        \/ /\ pc'[w] = "done"
                           /\ fails'[w] = Retries
                           /\ ret'[w] = "0"
                ELSE /\ WellFormed(lastStatus'[w])
                     /\ fails'[w] = fails[w]]_vars

\* the mint-status query was issued, no attempt got as far as a submission or
\* an outcome, and the third failure ended the workflow with the sentinel
C12_Witness ==
    \E w \in Wallets :
        /\ pc[w] = "done" /\ ret[w] = "0" /\ fails[w] = Retries
        /\ queried[w] /\ puts[w] = 0 /\ outcomes[w] = <<>>
        /\ w \notin errlog /\ mainpc = "gather"

\* C13: the terms POST and the relayer POST are issued only after an empty
\* account-lookup response, in the order lookup, terms, relayer and within
\* the attempt of that lookup; after a populated lookup response neither POST
\* is issued and the mint-status query comes next.
C13_PostsOnlyWhenAccountAbsent ==
    /\ [](\A w \in Wallets : pc[w] \in {"tos", "relayer"} => activation[w] = "absent")
    /\ [][\A w \in Wallets :
            /\ (pc'[w] = "tos" /\ pc[w] # "tos") =>
                   pc[w] = "lookup" /\ activation'[w] = "absent"
            /\ (pc'[w] = "relayer" /\ pc[w] # "relayer") => pc[w] = "tos"
            /\ (pc[w] \in Activating /\ pc'[w] \in {"tos", "relayer"}) =>
                   attempts'[w] = attempts[w] /\ lookups'[w] = lookups[w]
            /\ (pc[w] = "lookup" /\ activation'[w] = "absent") => pc'[w] = "tos"
            /\ (pc[w] = "lookup" /\ activation'[w] = "present") =>
                   /\ pc'[w] = "status"
                   /\ queried'[w]
                   /\ attempts'[w] = attempts[w]
            /\ (pc[w] = "lookup" /\ pc'[w] = "status") => activation'[w] = "present"]_vars

\* the relayer POST of an attempt whose lookup came back empty is in flight
C13_Witness ==
    \E w \in Wallets : pc[w] = "relayer" /\ activation[w] = "absent" /\ lookups[w] = 1

\* C14: when the lookup was empty and the relayer's response carries no
\* txHash, the workflow neither fails, waits nor retries: the same step issues
\* the mint-status query within the same attempt (same loop index, same open
\* session, no failure and no backoff counted, nothing returned), exactly as
\* the step does after a response with txHash.
C14_UnconfirmedActivationGoesOn ==
    /\ [](\A w \in Wallets :
            activation[w] \in {"activated", "unconfirmed"} =>
                pc[w] = "status" /\ client[w] = "open" /\ ret[w] = "pending")
    /\ [][\A w \in Wallets :
            /\ (pc[w] = "relayer" /\ activation'[w] \in {"activated", "unconfirmed"}) =>
                   /\ activation[w] = "absent"
                   /\ pc'[w] = "status"
                   /\ queried'[w]
                   /\ i'[w] = i[w]
                   /\ attempts'[w] = attempts[w]
                   /\ fails'[w] = fails[w]
                   /\ sleeps'[w] = sleeps[w]
                   /\ lookups'[w] = lookups[w]
                   /\ client'[w] = "open"
            /\ (pc[w] = "relayer" /\ pc'[w] = "status") =>
                   activation'[w] \in {"activated", "unconfirmed"}]_vars

\* the mint-status query of a first attempt is in flight after a relayer
\* response without txHash
C14_Witness ==
    \E w \in Wallets :
        /\ pc[w] = "status" /\ activation[w] = "unconfirmed"
        /\ attempts[w] = 1 /\ fails[w] = 0 /\ sleeps[w] = 0

\* wallet w is between the start of its first attempt and the end of its last
Retrying(w) == attempts[w] >= 1 /\ pc[w] \notin Ended

\* C15: from its first attempt until its last attempt ends, backoff waits
\* included, a wallet's task keeps its gate slot: the slot is not given back
\* (the gate's counter and the head of its queue do not move) and, the gate
\* having capacity 1, no other wallet is inside the gate, has an open session,
\* starts an attempt or issues a remote call in the meantime.
C15_SlotHeldAcrossRetries ==
    /\ [](\A w \in Wallets :
            Retrying(w) =>
                /\ pc[w] \in InGate
                /\ semValue = 0
                /\ \A v \in Wallets \ {w} :
                       pc[v] \notin InGate \cup {"woken"} /\ client[v] # "open")
    /\ [][\A w \in Wallets :
            Retrying(w) =>
                /\ \A v \in Wallets \ {w} :
                       /\ attempts'[v] = attempts[v]
                       /\ lookups'[v] = lookups[v]
                       /\ puts'[v] = puts[v]
                       /\ queried'[v] = queried[v]
                /\ pc'[w] \notin Ended =>
                       /\ semValue' = semValue
                       /\ \/ waiters' = waiters
                          \/ \E v \in Wallets \ {w} : waiters' = Append(waiters, v)]_vars

\* a wallet is in its second backoff wait while another wallet queues at the gate
C15_Witness ==
    \E w, v \in Wallets :
        /\ pc[w] = "sleep" /\ sleeps[w] = 2 /\ attempts[w] = 2
        /\ pc[v] = "waiting" /\ attempts[v] = 0

\* wallet w has been admitted to the gated section (main.py:219-220)
Entered(w) == attempts[w] >= 1 \/ pc[w] = "failed"

C17_SubmissionMatchesSignedMessage ==
    /\ [](\A w \in Wallets :
            IF pc[w] = "put"
            THEN LET body == putBody[w]
                     message == body.signature.msg
                 IN /\ body.signature.key = w
                    /\ message.owner = Address(w)
                    /\ message.leafOwner = message.owner
                    /\ message.deadline = ClockAt(attempts[w]) + Validity
                    /\ body.owner = message.owner
                    /\ body.merkleRoot = message.merkleRoot
                    /\ body.tokenRootCounter = Uint256(message.tokenRootCount)
                    /\ body.tokenRootCounter = 0
                    /\ body.signatureDeadline = message.deadline
            ELSE DOMAIN putBody[w] = {})
    /\ [][\A w \in Wallets :
            /\ puts'[w] # puts[w] =>
                   /\ puts'[w] = puts[w] + 1
                   /\ DOMAIN putBody[w] = {}
                   /\ pc[w] = "status" /\ pc'[w] = "put"
            /\ (pc'[w] = "put" /\ pc[w] # "put") => puts'[w] = puts[w] + 1
            /\ pc[w] = "put" => (pc'[w] = "put" /\ putBody'[w] = putBody[w])
                                 \/ (pc'[w] # "put" /\ puts'[w] = puts[w])]_vars

\* the PUT of a second attempt is in flight, after the PUT of the first
C17_Witness ==
    \E w \in Wallets :
        /\ pc[w] = "put" /\ puts[w] = 2 /\ attempts[w] = 2
        /\ putBody[w].signatureDeadline = ClockAt(2) + Validity

\* positions where a remote call of the attempt is in flight
InCall == Activating \cup {"status", "put"}

\* C18: each attempt opens its own client session and closes it when the
\* attempt ends, by return or by exception: a session is open exactly while a
\* remote call of an attempt is in flight, so every remote call goes through
\* an open session, and none is open during a backoff wait or once the
\* workflow has ended; the session of an attempt is opened by the step that
\* starts the attempt, when the wallet has no open session (never more than
\* one), is kept for all the calls of that attempt, and is closed by the
\* step that ends the attempt.
C18_OneSessionPerAttempt ==
    /\ [](\A w \in Wallets :
            /\ client[w] = "open" <=> pc[w] \in InCall
            /\ client[w] = "none" <=> attempts[w] = 0
            /\ pc[w] \in {"sleep"} \cup Ended => client[w] # "open")
    /\ [][\A w \in Wallets :
            /\ attempts'[w] # attempts[w] =>
                   /\ attempts'[w] = attempts[w] + 1
                   /\ client[w] # "open"
                   /\ client'[w] = "open"
            /\ (client[w] # "open" /\ client'[w] = "open") =>
                   attempts'[w] = attempts[w] + 1
            /\ (pc[w] \in InCall /\ pc'[w] \in InCall) =>
                   attempts'[w] = attempts[w] /\ client'[w] = "open"
            /\ (pc[w] \in InCall /\ pc'[w] \notin InCall) =>
                   client'[w] = "closed"]_vars

\* the third session of a wallet is open, the two before it were closed
\* when their attempts raised
C18_Witness ==
    \E w \in Wallets :
        /\ attempts[w] = Retries /\ fails[w] = 2
        /\ client[w] = "open" /\ pc[w] = "status"
====
